---- MODULE Spec2Model ----
(***************************************************************************)
(* Model of src/app.py (MagicImageMaker): the image-generation retry loop, *)
(* the "start" run (prompt batch, image batch, result collection), the     *)
(* batch TTS / batch video / merge handlers and the per-scene handlers,    *)
(* together with the three output directories on disk.                     *)
(*                                                                         *)
(* Specifications:                                                         *)
(*   SpecGen    one call of generate_image, attempt by attempt;            *)
(*   Spec       the session: store, directories, handlers, worker threads; *)
(*   SpecFs     Spec with an operator who also deletes scene videos by     *)
(*              hand;                                                      *)
(*   SpecPrompt the start action alone, with every prompt outcome;         *)
(*   SpecSplit  split_script_by_time and split_text_automatically;         *)
(*   SpecParse  parse_numbered_script;                                     *)
(*   SpecLoop   the image submission loop and its pauses;                  *)
(*   SpecQuota  the loop with its worker pool, on a clock;                 *)
(*   SpecNum    num_to_kor;                                                *)
(*   SpecTts    the text generate_supertone_tts sends;                     *)
(*   SpecNames  the file names of two scenes of a run;                     *)
(*   SpecSilence smart_shorten_silence on a clip of sound and quiet spans. *)
(* In Spec a call of generate_image is summarised by its return value      *)
(* (a saved path or None), the only two returns SpecGen exhibits.          *)
(***************************************************************************)
EXTENDS Integers, Sequences, FiniteSets, TLC

(***************************************************************************)
(* Bounds                                                                  *)
(***************************************************************************)
MaxScenes == 2

Scenes == 1..MaxScenes

(***************************************************************************)
(* Values held by path fields and returned by the workers.  A Python value *)
(* that is None, a file path or another string is one record shape here.   *)
(***************************************************************************)
None == [kind |-> "none", scene |-> 0, words |-> <<>>]

ImagePath(s) == [kind |-> "image", scene |-> s, words |-> <<>>]

AudioPath(s) == [kind |-> "audio", scene |-> s, words |-> <<>>]

VideoPath(s) == [kind |-> "video", scene |-> s, words |-> <<>>]

FinalPath == [kind |-> "final", scene |-> 0, words |-> <<>>]

\* a string that is not a path, as the list of its words
Text(w) == [kind |-> "str", scene |-> 0, words |-> w]

IsPath(v) == v.kind \in {"image", "audio", "video", "final"}

\* Python truthiness: None and the empty string are false
Truthy(v) == v.kind # "none" /\ ~(v.kind = "str" /\ v.words = <<>>)

\* (word in str(v)); the directory and file names hold none of the words
\* the handlers look for
Contains(word, v) == \E i \in 1..Len(v.words) : v.words[i] = word

VOICE_NOT_FOUND == Text(<<"VOICE_NOT_FOUND">>)

TtsHttpError == Text(<<"Error", "500", "body">>)

TtsSystemError == Text(<<"System", "Error", "e">>)

RenderError == Text(<<"Error", "e">>)

NoClips == Text(<<"No", "clips", "to", "merge">>)

MergeError == Text(<<"Merge", "Error", "e">>)

(***************************************************************************)
(* generate_image: the retry loop                                          *)
(***************************************************************************)
max_retries == 10

\* the substrings of str(e) the except branch looks for
Tokens == {"429", "ResourceExhausted", "400", "InvalidArgument", "SAFETY"}

\* an attempt returns a response with an inline image, a response without
\* one, or raises an exception whose message holds a set of the tokens
Outcomes ==
    {[resp |-> "image", msg |-> {}], [resp |-> "no_image", msg |-> {}]}
    \cup {[resp |-> "raise", msg |-> m] : m \in SUBSET Tokens}

IsRateLimit(m) == "429" \in m \/ "ResourceExhausted" \in m

IsRejected(m) == "400" \in m \/ "InvalidArgument" \in m \/ "SAFETY" \in m

WaitAfterFlat(o) == IF o.resp = "no_image" THEN 2 ELSE 5

\* seconds slept after an attempt that did not return
WaitAfter(o) ==
    IF o.resp = "no_image" THEN 2
    ELSE IF IsRateLimit(o.msg) THEN 30
    ELSE IF IsRejected(o.msg) THEN 5
    ELSE 5

VARIABLES
    gi_state,     \* "off" | "run" | "returned"
    gi_file,      \* the scene whose file name was passed in
    gi_attempt,   \* attempts made so far
    gi_last,      \* outcome of the last attempt
    gi_lastWait,  \* seconds slept after the last attempt
    gi_slept,     \* total seconds slept
    gi_all429,    \* every attempt so far raised a rate-limit error
    gi_saved,     \* image.save(full_path) was executed
    gi_result     \* the return value

giVars == <<gi_state, gi_file, gi_attempt, gi_last, gi_lastWait, gi_slept,
            gi_all429, gi_saved, gi_result>>

NoOutcome == [resp |-> "none", msg |-> {}]

GiOff ==
    /\ gi_state = "off"
    /\ gi_file = 1
    /\ gi_attempt = 0
    /\ gi_last = NoOutcome
    /\ gi_lastWait = 0
    /\ gi_slept = 0
    /\ gi_all429 = TRUE
    /\ gi_saved = FALSE
    /\ gi_result = None

GiInit ==
    /\ gi_state = "run"
    /\ gi_file \in Scenes
    /\ gi_attempt = 0
    /\ gi_last = NoOutcome
    /\ gi_lastWait = 0
    /\ gi_slept = 0
    /\ gi_all429 = TRUE
    /\ gi_saved = FALSE
    /\ gi_result = None

LoopGuardOneMore == gi_attempt < max_retries + 1

\* one pass of "for attempt in range(1, max_retries + 1)"
LoopGuard == gi_attempt < max_retries

\* one iteration of the loop body
Attempt(o) ==
    /\ gi_state = "run"
    /\ LoopGuard
    /\ gi_attempt' = gi_attempt + 1
    /\ gi_last' = o
    /\ gi_all429' = (gi_all429 /\ o.resp = "raise" /\ IsRateLimit(o.msg))
    /\ IF o.resp = "image"
       THEN /\ gi_saved' = TRUE
            /\ gi_result' = ImagePath(gi_file)
            /\ gi_state' = "returned"
            /\ gi_lastWait' = 0
            /\ gi_slept' = gi_slept
       ELSE /\ gi_lastWait' = WaitAfter(o)
            /\ gi_slept' = gi_slept + WaitAfter(o)
            /\ UNCHANGED <<gi_saved, gi_result, gi_state>>
    /\ UNCHANGED gi_file

\* the loop is exhausted: "return None"
GiveUp ==
    /\ gi_state = "run"
    /\ ~LoopGuard
    /\ gi_state' = "returned"
    /\ gi_result' = None
    /\ UNCHANGED <<gi_file, gi_attempt, gi_last, gi_lastWait, gi_slept,
                   gi_all429, gi_saved>>


(***************************************************************************)
(* The session: store, directories on disk, script thread, worker threads  *)
(***************************************************************************)
VARIABLES
    generated_results,  \* st.session_state['generated_results']
    is_processing,      \* st.session_state['is_processing']
    imageDir,           \* IMAGE_OUTPUT_DIR: scene file name -> file
    audioDir,           \* AUDIO_OUTPUT_DIR: scene file name -> file
    videoDir,           \* VIDEO_OUTPUT_DIR: scene video name -> file
    finalFile,          \* VIDEO_OUTPUT_DIR/FINAL_FULL_VIDEO.mp4
    pc,                 \* where the script thread is: idle, prompts, images, tts, video
    pending,            \* futures of the running batch not yet completed
    prompts,            \* the list prompts of the start run
    collected,          \* the list results of the start run, in append order
    oldWorkers,         \* image workers still running whose run was abandoned
    genOutcome,         \* history: what generate_image returned per scene in the start run
    last                \* history: the merge, render or regeneration handler just run

mainVars == <<generated_results, is_processing, imageDir, audioDir, videoDir,
              finalFile, pc, pending, prompts, collected, oldWorkers,
              genOutcome, last>>

(***************************************************************************)
(* One call of a text function: its arguments and its return value         *)
(***************************************************************************)
VARIABLES
    fn_in,    \* the call: function name, text argument, budget, outcome of the service
    fn_out,   \* the return value, as a list of strings
    fn_done   \* the call has returned

fnVars == <<fn_in, fn_out, fn_done>>

NoCall == [fn |-> "", text |-> <<>>, budget |-> 0, how |-> "", resp |-> <<>>]

FnOff ==
    /\ fn_in = NoCall
    /\ fn_out = <<>>
    /\ fn_done = FALSE

(***************************************************************************)
(* The image submission loop of the start action and the worker pool it    *)
(* feeds, on a clock in milliseconds                                       *)
(***************************************************************************)
VARIABLES
    num_clients,    \* len(clients)
    total_scenes,   \* len(prompts)
    request_count,  \* requests submitted so far
    lp_clock,       \* time of the last executor.submit, from the start of the loop
    lp_paused       \* the 60 second pause was taken before the last submit

lpVars == <<num_clients, total_scenes, request_count, lp_clock, lp_paused>>

LpOff ==
    /\ num_clients = 0
    /\ total_scenes = 0
    /\ request_count = 0
    /\ lp_clock = 0
    /\ lp_paused = FALSE

VARIABLES
    max_workers,  \* the concurrency slider
    qt_answer,    \* how the image service answers the requests of this batch
    qt_pool,      \* per worker thread: the credential of its task, the attempt it makes next, and when
    qt_queue,     \* credentials of the submitted tasks no worker has taken yet
    qt_sent,      \* per credential: times of the requests sent in the last 60 seconds
    qt_now        \* time of the last event

qtVars == <<max_workers, qt_answer, qt_pool, qt_queue, qt_sent, qt_now>>

QtOff ==
    /\ max_workers = 0
    /\ qt_answer = NoOutcome
    /\ qt_pool = <<>>
    /\ qt_queue = <<>>
    /\ qt_sent = <<>>
    /\ qt_now = 0

auxVars == <<fnVars, lpVars, qtVars>>

AuxOff == FnOff /\ LpOff /\ QtOff

vars == <<giVars, mainVars, auxVars>>

\* A file on disk.  tag is history: of an image, whether a worker of the
\* current run ("cur") or of an abandoned run ("late") wrote it; of a scene
\* video, whether the image and audio files it was rendered from are still
\* the ones at the scene's paths ("fresh") or not ("stale"); of the final
\* video, whether the last merge invocation wrote it ("this"), an earlier
\* one did ("earlier"), or the result list or a scene's image, audio or
\* video has changed since it was written ("outdated").
NoFile == [exists |-> FALSE, tag |-> ""]

NewFile(tag) == [exists |-> TRUE, tag |-> tag]

\* history only: the image or audio file of the scene is replaced or deleted
SourceChanged(v) == IF v.exists THEN NewFile("stale") ELSE v

\* os.path.exists(v) for a path value
Exists(v) ==
    CASE v.kind = "image" -> imageDir[v.scene].exists
      [] v.kind = "audio" -> audioDir[v.scene].exists
      [] v.kind = "video" -> videoDir[v.scene].exists
      [] v.kind = "final" -> finalFile.exists
      [] OTHER -> FALSE

\* shutil.rmtree(IMAGE_OUTPUT_DIR) followed by init_folders()
ResetImageDir(dir) == [s \in Scenes |-> NoFile]

\* init_folders() creates the directories that are missing and leaves the
\* existing ones, and their files, alone
init_folders(dir) == dir

\* "if os.path.exists(final): os.remove(final)"
RemoveFinalSkipped(f) == f

RemoveFinal(f) == IF f.exists THEN NoFile ELSE f

\* none of the handlers last keeps a record of has just run
Quiet ==
    [op |-> "", had |-> FALSE, case |-> "", shown |-> "", ret |-> None,
     scene |-> 0, zoom |-> ""]

\* history only: the handler op has just run for scene, with outcome case
\* and, for a render, the zoom direction it passed
Ran(op, scene, case, zoom) ==
    [op |-> op, had |-> FALSE, case |-> case, shown |-> "", ret |-> None,
     scene |-> scene, zoom |-> zoom]

\* history only: the final video on disk predates a change of the result
\* list or of a scene's image, audio or video
Outdated(f) == IF f.exists THEN NewFile("outdated") ELSE f

\* the "with ThreadPoolExecutor" block is left, every future was collected
PoolDrainedAlways == TRUE

PoolDrained == pending = {}

\* the locals of the script run that served the previous click are gone
NewScriptRun ==
    /\ collected' = <<>>
    /\ genOutcome' = [s \in Scenes |-> "none"]

Init ==
    /\ GiOff
    /\ AuxOff
    /\ generated_results = <<>>
    /\ is_processing = FALSE
    /\ imageDir = [s \in Scenes |-> NoFile]
    /\ audioDir = [s \in Scenes |-> NoFile]
    /\ videoDir = [s \in Scenes |-> NoFile]
    /\ finalFile = NoFile
    /\ pc = "idle"
    /\ pending = {}
    /\ prompts = <<>>
    /\ collected = <<>>
    /\ oldWorkers = {}
    /\ genOutcome = [s \in Scenes |-> "none"]
    /\ last = Quiet

(***************************************************************************)
(* list.sort(key=scene): a stable insertion sort                           *)
(***************************************************************************)
InsertByScene(seq, x) ==
    LET k == Cardinality({i \in 1..Len(seq) : seq[i].scene <= x.scene})
    IN  SubSeq(seq, 1, k) \o <<x>> \o SubSeq(seq, k + 1, Len(seq))

SortKeepsOrder(seq) == seq

RECURSIVE SortByScene(_)
SortByScene(seq) ==
    IF seq = <<>> THEN <<>>
    ELSE InsertByScene(SortByScene(SubSeq(seq, 1, Len(seq) - 1)), seq[Len(seq)])

(***************************************************************************)
(* generate_prompt: (scene_num, final_prompt) for the chunk at index       *)
(***************************************************************************)
PromptOutcomes == {"ok", "bad_shape", "status", "exception"}

generate_prompt_numbered_on_arrival(index, text_chunk, o) ==
    [scene  |-> Len(prompts) + 1,
     prompt |-> CASE o = "ok"        -> [src |-> "model", chunk |-> text_chunk, suffix |-> TRUE]
                  [] o = "bad_shape" -> [src |-> "chunk", chunk |-> text_chunk, suffix |-> TRUE]
                  [] OTHER           -> [src |-> "error", chunk |-> text_chunk, suffix |-> FALSE]]

generate_prompt(index, text_chunk, o) ==
    [scene  |-> index + 1,
     prompt |-> CASE o = "ok"        -> [src |-> "model", chunk |-> text_chunk, suffix |-> TRUE]
                  [] o = "bad_shape" -> [src |-> "chunk", chunk |-> text_chunk, suffix |-> TRUE]
                  [] OTHER           -> [src |-> "error", chunk |-> text_chunk, suffix |-> FALSE]]

\* make_filename(scene_num, text): "S<scene_num>_<summary>.png"; the runs
\* of the model segment the same script, so the name is fixed by the number
make_filename(scene_num, text_chunk) == scene_num

(***************************************************************************)
(* The start button                                                        *)
(***************************************************************************)
\* the record the result collection appends for a future that returned path
ResultRecord(s_num, fname, orig_text, p_text, path) ==
    [scene |-> s_num, path |-> path, filename |-> fname, script |-> orig_text,
     prompt |-> p_text, audio_path |-> None, video_path |-> None]

CollectAlways(results, s_num, fname, orig_text, p_text, path) ==
    Append(results, ResultRecord(s_num, fname, orig_text, p_text, path))

\* "if path: results.append({...}) else: st.error(...)"
Collect(results, s_num, fname, orig_text, p_text, path) ==
    IF Truthy(path)
    THEN Append(results, ResultRecord(s_num, fname, orig_text, p_text, path))
    ELSE results

\* a worker of scene s whose run was abandoned; of: its run is still the
\* latest one, or an earlier one
Abandoned == [scene : Scenes, of : {"latest", "earlier"}]

\* the workers a click leaves behind: the script thread of a run in its
\* image batch is stopped by the click, its workers are not
LeftBehind(of) == {[scene |-> s, of |-> of] : s \in (IF pc = "images" THEN pending ELSE {})}

\* A click on the start button: the on_click callback, then the handler up
\* to the submission of the prompt batch.  A click while a run is in its
\* image batch abandons that run; its workers run on to completion, as
\* workers of the latest run until a later click begins a new run.
\* Clicks during a TTS or video batch are left out: their workers write to
\* the audio and video directories only, which no start action resets.
Start(hasKey, hasScript, n) ==
    /\ pc \in {"idle", "prompts", "images"}
    /\ generated_results' = <<>>
    /\ prompts' = <<>>
    /\ collected' = <<>>
    /\ genOutcome' = [s \in Scenes |-> "none"]
    /\ IF ~hasKey \/ ~hasScript
       THEN /\ pc' = "idle"
            /\ pending' = {}
            /\ oldWorkers' = oldWorkers \cup LeftBehind("latest")
            /\ finalFile' = Outdated(finalFile)
            /\ UNCHANGED <<is_processing, imageDir, audioDir, videoDir>>
       ELSE /\ is_processing' = TRUE
            /\ imageDir' = init_folders(ResetImageDir(imageDir))
            /\ audioDir' = init_folders(audioDir)
            /\ videoDir' = init_folders([s \in Scenes |-> SourceChanged(videoDir[s])])
            /\ finalFile' = Outdated(finalFile)
            /\ oldWorkers' = {[scene |-> w.scene, of |-> "earlier"] :
                                 w \in oldWorkers \cup LeftBehind("earlier")}
            /\ IF n = 0
               THEN /\ pc' = "idle"
                    /\ pending' = {}
               ELSE /\ pc' = "prompts"
                    /\ pending' = 1..n
    /\ last' = Quiet
    /\ UNCHANGED <<giVars, auxVars>>

\* as_completed(futures) of the prompt batch yields the future of scene s
PromptDone(s, o) ==
    /\ pc = "prompts"
    /\ s \in pending
    /\ prompts' = Append(prompts, generate_prompt(s - 1, s, o))
    /\ pending' = pending \ {s}
    /\ UNCHANGED <<generated_results, is_processing, imageDir, audioDir,
                   videoDir, finalFile, pc, collected, oldWorkers, genOutcome>>
    /\ last' = Quiet
    /\ UNCHANGED <<giVars, auxVars>>

\* prompts.sort(key=lambda x: x[0]) and the image submission loop
StartImages ==
    /\ pc = "prompts"
    /\ PoolDrained
    /\ prompts' = SortByScene(prompts)
    /\ pending' = {prompts[i].scene : i \in 1..Len(prompts)}
    /\ pc' = "images"
    /\ UNCHANGED <<generated_results, is_processing, imageDir, audioDir,
                   videoDir, finalFile, collected, oldWorkers, genOutcome>>
    /\ last' = Quiet
    /\ UNCHANGED <<giVars, auxVars>>

\* the prompt the submission loop paired with scene s
PromptOf(s) == (CHOOSE i \in 1..Len(prompts) : prompts[i].scene = s)

\* the worker of scene s returns (ok: it saved the image) and
\* as_completed(future_to_meta) yields its future
ImageDone(s, ok) ==
    /\ pc = "images"
    /\ s \in pending
    /\ pending' = pending \ {s}
    /\ imageDir' = IF ok THEN [imageDir EXCEPT ![make_filename(s, s)] = NewFile("cur")] ELSE imageDir
    /\ videoDir' = IF ok THEN [videoDir EXCEPT ![s] = SourceChanged(@)] ELSE videoDir
    /\ genOutcome' = [genOutcome EXCEPT ![s] = IF ok THEN "ok" ELSE "fail"]
    /\ collected' = Collect(collected, s, make_filename(s, s), s,
                            prompts[PromptOf(s)].prompt,
                            IF ok THEN ImagePath(make_filename(s, s)) ELSE None)
    /\ UNCHANGED <<generated_results, is_processing, audioDir, finalFile, pc,
                   prompts, oldWorkers>>
    /\ last' = Quiet
    /\ UNCHANGED <<giVars, auxVars>>

\* results.sort(key=scene); the store; is_processing = False
FinishRun ==
    /\ pc = "images"
    /\ PoolDrained
    /\ generated_results' = SortByScene(collected)
    /\ is_processing' = FALSE
    /\ pc' = "idle"
    /\ prompts' = <<>>
    /\ UNCHANGED <<imageDir, audioDir, videoDir, finalFile, pending, collected,
                   oldWorkers, genOutcome>>
    /\ last' = Quiet
    /\ UNCHANGED <<giVars, auxVars>>

\* a worker of an abandoned run returns (ok: it saved its image)
OldWorkerDone(w, ok) ==
    /\ w \in oldWorkers
    /\ oldWorkers' = oldWorkers \ {w}
    /\ imageDir' = IF ok
                   THEN [imageDir EXCEPT ![make_filename(w.scene, w.scene)] =
                            NewFile(IF w.of = "latest" THEN "cur" ELSE "late")]
                   ELSE imageDir
    /\ videoDir' = IF ok THEN [videoDir EXCEPT ![w.scene] = SourceChanged(@)] ELSE videoDir
    /\ finalFile' = IF ok THEN Outdated(finalFile) ELSE finalFile
    /\ UNCHANGED <<generated_results, is_processing, audioDir, pc,
                   pending, prompts, collected, genOutcome>>
    /\ last' = Quiet
    /\ UNCHANGED <<giVars, auxVars>>

(***************************************************************************)
(* Narration: generate_supertone_tts and the handlers that call it         *)
(***************************************************************************)
TtsOutcomes == {"ok", "404", "status", "exception"}

\* the return value of generate_supertone_tts for scene_num
generate_supertone_tts(scene_num, o) ==
    CASE o = "ok"     -> AudioPath(scene_num)
      [] o = "404"    -> VOICE_NOT_FOUND
      [] o = "status" -> TtsHttpError
      [] OTHER        -> TtsSystemError

\* what the call leaves in AUDIO_OUTPUT_DIR: the file is written on 200 only
AudioDirAfterTts(dir, scene_num, o) ==
    IF o = "ok" THEN [dir EXCEPT ![scene_num] = NewFile("cur")] ELSE dir

VideoDirAfterTts(dir, scene_num, o) ==
    IF o = "ok" THEN [dir EXCEPT ![scene_num] = SourceChanged(@)] ELSE dir

BatchTtsGoodErrorOnly(v) == ~Contains("Error", v)

\* the test of the batch collection and of process_single_tts_task
BatchTtsGood(v) == ~Contains("Error", v) /\ ~Contains("VOICE_NOT_FOUND", v)

\* the test of the per-scene handler
SceneTtsGood(v) == ~Contains("Error", v) /\ v # VOICE_NOT_FOUND

\* the two assignments of the batch collection
StoreBatchAudio(item, result_path) ==
    [item EXCEPT !.audio_path = result_path, !.video_path = None]

\* the batch TTS button: final file removed, one task per result submitted
BatchTtsStart ==
    /\ pc = "idle"
    /\ generated_results # <<>>
    /\ finalFile' = RemoveFinal(finalFile)
    /\ pc' = "tts"
    /\ pending' = 1..Len(generated_results)
    /\ NewScriptRun
    /\ UNCHANGED <<generated_results, is_processing, imageDir, audioDir,
                   videoDir, prompts, oldWorkers>>
    /\ last' = Quiet
    /\ UNCHANGED <<giVars, auxVars>>

\* the task of the result at position i returns and its future is collected
TtsDone(i, o) ==
    /\ pc = "tts"
    /\ i \in pending
    /\ LET item == generated_results[i]
           result_path == generate_supertone_tts(item.scene, o)
       IN  /\ audioDir' = AudioDirAfterTts(audioDir, item.scene, o)
           /\ videoDir' = VideoDirAfterTts(videoDir, item.scene, o)
           /\ generated_results' =
                 IF BatchTtsGood(result_path)
                 THEN [generated_results EXCEPT ![i] = StoreBatchAudio(item, result_path)]
                 ELSE generated_results
    /\ pending' = pending \ {i}
    /\ UNCHANGED <<is_processing, imageDir, finalFile, pc, prompts, collected,
                   oldWorkers, genOutcome>>
    /\ last' = Ran("batch_tts", generated_results[i].scene,
                    IF BatchTtsGood(generate_supertone_tts(generated_results[i].scene, o))
                    THEN "ok" ELSE "fail", "")
    /\ UNCHANGED <<giVars, auxVars>>

\* the pool has drained: status update, st.rerun()
TtsFinish ==
    /\ pc = "tts"
    /\ PoolDrained
    /\ pc' = "idle"
    /\ UNCHANGED <<generated_results, is_processing, imageDir, audioDir,
                   videoDir, finalFile, pending, prompts, collected,
                   oldWorkers, genOutcome>>
    /\ last' = Quiet
    /\ UNCHANGED <<giVars, auxVars>>

\* "item.get('audio_path') and os.path.exists(item['audio_path'])"
HasAudio(item) == Truthy(item.audio_path) /\ Exists(item.audio_path)

HasVideo(item) == Truthy(item.video_path) /\ Exists(item.video_path)

\* the per-scene TTS button, shown when the scene has no audio
SceneTts(i, o) ==
    /\ pc = "idle"
    /\ i \in 1..Len(generated_results)
    /\ ~HasAudio(generated_results[i])
    /\ LET item == generated_results[i]
           audio_result == generate_supertone_tts(item.scene, o)
       IN  /\ audioDir' = AudioDirAfterTts(audioDir, item.scene, o)
           /\ videoDir' = VideoDirAfterTts(videoDir, item.scene, o)
           /\ generated_results' =
                 IF SceneTtsGood(audio_result)
                 THEN [generated_results EXCEPT ![i].audio_path = audio_result]
                 ELSE generated_results
    /\ NewScriptRun
    /\ finalFile' = IF o = "ok" THEN Outdated(finalFile) ELSE finalFile
    /\ UNCHANGED <<is_processing, imageDir, pc, pending, prompts, oldWorkers>>
    /\ last' = Quiet
    /\ UNCHANGED <<giVars, auxVars>>

\* the two assignments of the audio regeneration button
ClearAudio(item) == [item EXCEPT !.audio_path = None, !.video_path = None]

\* the audio regeneration button, shown when the scene has audio
AudioRegen(i) ==
    /\ pc = "idle"
    /\ i \in 1..Len(generated_results)
    /\ HasAudio(generated_results[i])
    /\ generated_results' = [generated_results EXCEPT ![i] = ClearAudio(@)]
    /\ NewScriptRun
    /\ finalFile' = Outdated(finalFile)
    /\ UNCHANGED <<is_processing, imageDir, audioDir, videoDir, pc, pending,
                   prompts, oldWorkers>>
    /\ last' = Quiet
    /\ UNCHANGED <<giVars, auxVars>>

(***************************************************************************)
(* Scene videos: create_video_with_zoom and the handlers that call it      *)
(***************************************************************************)
is_zoom_in_always(i) == TRUE

\* "is_zoom_in = (i % 2 == 0)" of the batch handler and
\* "is_zoom_in_mode = (index % 2 == 0)" of the per-scene handler, for the
\* result at index i of enumerate(generated_results)
is_zoom_in(i) == i % 2 = 0

\* the direction create_video_with_zoom is passed for the result at index i
Direction(i) == IF is_zoom_in(i) THEN "in" ELSE "out"

\* the return value of create_video_with_zoom
create_video_with_zoom(scene_num, ok) ==
    IF ok THEN VideoPath(scene_num) ELSE RenderError

\* the return value of process_single_video_task
process_single_video_task(item, ok) ==
    IF HasAudio(item) THEN create_video_with_zoom(item.scene, ok) ELSE None

\* the test of the batch collection
BatchVideoGood(v) == Truthy(v) /\ ~Contains("Error", v)

\* the test of the per-scene handler
SceneVideoGood(v) == ~Contains("Error", v)

\* the batch video button, enabled when some scene has an audio path
BatchVideoStart ==
    /\ pc = "idle"
    /\ \E i \in 1..Len(generated_results) : Truthy(generated_results[i].audio_path)
    /\ finalFile' = RemoveFinal(finalFile)
    /\ pc' = "video"
    /\ pending' = 1..Len(generated_results)
    /\ NewScriptRun
    /\ UNCHANGED <<generated_results, is_processing, imageDir, audioDir,
                   videoDir, prompts, oldWorkers>>
    /\ last' = Quiet
    /\ UNCHANGED <<giVars, auxVars>>

\* the task of the result at position i returns and its future is collected
VideoDone(i, ok) ==
    /\ pc = "video"
    /\ i \in pending
    /\ LET item == generated_results[i]
           vid_path == process_single_video_task(item, ok)
       IN  /\ videoDir' = IF vid_path = VideoPath(item.scene)
                          THEN [videoDir EXCEPT ![item.scene] = NewFile("fresh")]
                          ELSE videoDir
           /\ generated_results' =
                 IF BatchVideoGood(vid_path)
                 THEN [generated_results EXCEPT ![i].video_path = vid_path]
                 ELSE generated_results
    /\ pending' = pending \ {i}
    /\ UNCHANGED <<is_processing, imageDir, audioDir, finalFile, pc, prompts,
                   collected, oldWorkers, genOutcome>>
    /\ last' = IF HasAudio(generated_results[i])
               THEN Ran("batch_video", generated_results[i].scene,
                        IF ok THEN "ok" ELSE "fail", Direction(i - 1))
               ELSE Quiet
    /\ UNCHANGED <<giVars, auxVars>>

VideoFinish ==
    /\ pc = "video"
    /\ PoolDrained
    /\ pc' = "idle"
    /\ UNCHANGED <<generated_results, is_processing, imageDir, audioDir,
                   videoDir, finalFile, pending, prompts, collected,
                   oldWorkers, genOutcome>>
    /\ last' = Quiet
    /\ UNCHANGED <<giVars, auxVars>>

\* the per-scene render button, shown when the scene has audio and no video
SceneVideo(i, ok) ==
    /\ pc = "idle"
    /\ i \in 1..Len(generated_results)
    /\ HasAudio(generated_results[i])
    /\ ~HasVideo(generated_results[i])
    /\ LET item == generated_results[i]
           vid_path == create_video_with_zoom(item.scene, ok)
       IN  /\ videoDir' = IF ok THEN [videoDir EXCEPT ![item.scene] = NewFile("fresh")] ELSE videoDir
           /\ generated_results' =
                 IF SceneVideoGood(vid_path)
                 THEN [generated_results EXCEPT ![i].video_path = vid_path]
                 ELSE generated_results
    /\ NewScriptRun
    /\ finalFile' = IF ok THEN Outdated(finalFile) ELSE finalFile
    /\ UNCHANGED <<is_processing, imageDir, audioDir, pc, pending, prompts,
                   oldWorkers>>
    /\ last' = Ran("scene_video", generated_results[i].scene,
                    IF ok THEN "ok" ELSE "fail", Direction(i - 1))
    /\ UNCHANGED <<giVars, auxVars>>

(***************************************************************************)
(* Merge                                                                   *)
(***************************************************************************)
\* [item.get('video_path') for item in results if item.get('video_path')]
RECURSIVE VideoPaths(_)
VideoPaths(results) ==
    IF results = <<>> THEN <<>>
    ELSE LET rest == VideoPaths(Tail(results))
         IN  IF Truthy(Head(results).video_path)
             THEN <<Head(results).video_path>> \o rest
             ELSE rest

\* the return value of merge_all_videos; a failed write_videofile is taken
\* to leave no file behind
merge_all_videos(video_paths, encodeOk) ==
    LET clips == {k \in 1..Len(video_paths) :
                     Truthy(video_paths[k]) /\ Exists(video_paths[k])}
    IN  IF clips = {} THEN NoClips
        ELSE IF encodeOk THEN FinalPath
        ELSE MergeError

\* "if 'Error' in merged_result: st.error(...) else: st.success(...)"
MergeShown(merged_result) ==
    IF Contains("Error", merged_result) THEN "error" ELSE "success"

\* history only: what is on disk when a merge is invoked predates it
Earlier(f) == IF f.exists THEN NewFile("earlier") ELSE f

\* the merge button, shown when some scene has a video path
Merge(encodeOk) ==
    /\ pc = "idle"
    /\ VideoPaths(generated_results) # <<>>
    /\ LET video_paths == VideoPaths(generated_results)
           removed == RemoveFinal(Earlier(finalFile))
           merged_result == merge_all_videos(video_paths, encodeOk)
       IN  /\ finalFile' = IF merged_result = FinalPath THEN NewFile("this") ELSE removed
           /\ last' = [op |-> "merge", had |-> finalFile.exists,
                       case |-> IF \A k \in 1..Len(video_paths) : ~Exists(video_paths[k])
                                THEN "no_clips"
                                ELSE IF encodeOk THEN "merged" ELSE "encode_fail",
                       shown |-> MergeShown(merged_result), ret |-> merged_result,
                       scene |-> 0, zoom |-> ""]
    /\ NewScriptRun
    /\ UNCHANGED <<generated_results, is_processing, imageDir, audioDir,
                   videoDir, pc, pending, prompts, oldWorkers>>
    /\ UNCHANGED <<giVars, auxVars>>

(***************************************************************************)
(* Per-scene image regeneration                                            *)
(***************************************************************************)
\* the three assignments made when generate_image returned a path
StoreRegenerated(item, new_path, new_prompt) ==
    [item EXCEPT !.path = new_path, !.prompt = new_prompt, !.video_path = None]

RegenStoreAlways(results, i, new_path, new_prompt) ==
    [results EXCEPT ![i] = StoreRegenerated(results[i], new_path, new_prompt)]

\* "if new_path: ... else: st.error(...)"
RegenStore(results, i, new_path, new_prompt) ==
    IF Truthy(new_path)
    THEN [results EXCEPT ![i] = StoreRegenerated(results[i], new_path, new_prompt)]
    ELSE results

\* the regenerate button of the result at position i (ok: generate_image
\* saved an image and returned its path)
RegenImage(i, po, ok) ==
    /\ pc = "idle"
    /\ i \in 1..Len(generated_results)
    /\ LET item == generated_results[i]
           new_prompt == generate_prompt(i - 1, item.script, po).prompt
           new_path == IF ok THEN ImagePath(item.filename) ELSE None
       IN  /\ imageDir' = IF ok THEN [imageDir EXCEPT ![item.filename] = NewFile("cur")] ELSE imageDir
           /\ videoDir' = IF ok THEN [videoDir EXCEPT ![item.filename] = SourceChanged(@)]
                          ELSE videoDir
           /\ generated_results' = RegenStore(generated_results, i, new_path, new_prompt)
    /\ NewScriptRun
    /\ finalFile' = IF ok THEN Outdated(finalFile) ELSE finalFile
    /\ UNCHANGED <<is_processing, audioDir, pc, pending, prompts, oldWorkers>>
    /\ last' = Ran("regen_image", generated_results[i].scene,
                    IF ok THEN "ok" ELSE "fail", "")
    /\ UNCHANGED <<giVars, auxVars>>

(***************************************************************************)
(* The operator removes a scene video outside the application              *)
(***************************************************************************)
ExternalRemoveVideo(s) ==
    /\ pc = "idle"
    /\ videoDir[s].exists
    /\ videoDir' = [videoDir EXCEPT ![s] = NoFile]
    /\ NewScriptRun
    /\ finalFile' = Outdated(finalFile)
    /\ UNCHANGED <<generated_results, is_processing, imageDir, audioDir, pc,
                   pending, prompts, oldWorkers>>
    /\ last' = Quiet
    /\ UNCHANGED <<giVars, auxVars>>

(***************************************************************************)
(* Specifications                                                          *)
(***************************************************************************)
\* In Spec the text model answers every prompt call with a prompt text;
\* the other outcomes of generate_prompt change the prompt field only.
Answered == {"ok"}

Next ==
    \/ \E hasKey \in BOOLEAN, hasScript \in BOOLEAN, n \in 0..MaxScenes :
          Start(hasKey, hasScript, n)
    \/ \E s \in Scenes, o \in Answered : PromptDone(s, o)
    \/ StartImages
    \/ \E s \in Scenes, ok \in BOOLEAN : ImageDone(s, ok)
    \/ FinishRun
    \/ \E w \in Abandoned, ok \in BOOLEAN : OldWorkerDone(w, ok)
    \/ BatchTtsStart
    \/ \E i \in Scenes, o \in TtsOutcomes : TtsDone(i, o)
    \/ TtsFinish
    \/ \E i \in Scenes, o \in TtsOutcomes : SceneTts(i, o)
    \/ \E i \in Scenes : AudioRegen(i)
    \/ BatchVideoStart
    \/ \E i \in Scenes, ok \in BOOLEAN : VideoDone(i, ok)
    \/ VideoFinish
    \/ \E i \in Scenes, ok \in BOOLEAN : SceneVideo(i, ok)
    \/ \E encodeOk \in BOOLEAN : Merge(encodeOk)
    \/ \E i \in Scenes, po \in Answered, ok \in BOOLEAN : RegenImage(i, po, ok)

Spec == Init /\ [][Next]_vars

\* the session with an operator who also removes scene videos by hand
NextFs ==
    \/ Next
    \/ \E s \in Scenes : ExternalRemoveVideo(s)

SpecFs == Init /\ [][NextFs]_vars

\* one call of generate_image
MainIdle ==
    /\ generated_results = <<>>
    /\ is_processing = FALSE
    /\ imageDir = [s \in Scenes |-> NoFile]
    /\ audioDir = [s \in Scenes |-> NoFile]
    /\ videoDir = [s \in Scenes |-> NoFile]
    /\ finalFile = NoFile
    /\ pc = "idle"
    /\ pending = {}
    /\ prompts = <<>>
    /\ collected = <<>>
    /\ oldWorkers = {}
    /\ genOutcome = [s \in Scenes |-> "none"]
    /\ last = Quiet

InitGen == GiInit /\ MainIdle /\ AuxOff

AttemptStep == \E o \in Outcomes : Attempt(o) /\ UNCHANGED <<mainVars, auxVars>>

GiveUpStep == GiveUp /\ UNCHANGED <<mainVars, auxVars>>

NextGen == AttemptStep \/ GiveUpStep

SpecGen == InitGen /\ [][NextGen]_vars

(***************************************************************************)
(* Claims                                                                  *)
(***************************************************************************)

\* C1: when every attempt of generate_image raises a rate-limit error, the
\* call makes exactly 10 attempts, sleeps 30 seconds after each of them and
\* then returns None; it does not return before the 10th attempt and makes
\* no 11th.
C1_AlwaysRateLimited ==
    /\ gi_attempt <= 10
    /\ gi_all429 =>
          /\ gi_slept = 30 * gi_attempt
          /\ gi_attempt > 0 => gi_lastWait = 30
          /\ gi_attempt < 10 => gi_state = "run"
          /\ gi_state = "returned" => gi_attempt = 10 /\ gi_result = None /\ ~gi_saved

C1_Witness ==
    gi_state = "returned" /\ gi_all429 /\ gi_attempt = 10 /\ gi_slept = 300

\* C2: whatever the attempts' outcomes, an attempt that returns an image
\* saves it and returns its path and is the last attempt; a response without
\* image is followed by a 2 second sleep, a rate-limit error by 30 seconds,
\* an invalid-argument or safety error by 5 seconds and any other exception
\* by 5 seconds; there are never more than 10 attempts.
C2_AttemptOutcomes ==
    LET m == gi_last.msg
        rate == "429" \in m \/ "ResourceExhausted" \in m
    IN  /\ gi_attempt <= 10
        /\ gi_last.resp = "image" =>
              /\ gi_state = "returned" /\ gi_saved /\ gi_result = ImagePath(gi_file)
              /\ gi_lastWait = 0
        /\ gi_state = "returned" => ~ENABLED NextGen
        /\ gi_saved <=> gi_last.resp = "image"
        /\ gi_result # None <=> gi_last.resp = "image"
        /\ gi_last.resp = "no_image" => gi_lastWait = 2
        /\ gi_last.resp = "raise" /\ rate => gi_lastWait = 30
        /\ gi_last.resp = "raise" /\ ~rate => gi_lastWait = 5

C2_Witness ==
    /\ gi_state = "returned"
    /\ gi_last.resp = "image"
    /\ gi_attempt = 4
    /\ gi_slept = 2 + 30 + 5

\* C3: the result list stored in the session is strictly increasing in
\* scene number, whatever the order in which the prompt and image futures
\* completed.
C3_StoredResultsSorted ==
    \A i, j \in 1..Len(generated_results) :
        i < j => generated_results[i].scene < generated_results[j].scene

\* a run has just stored its results, its image futures having completed
\* in decreasing scene order
C3_Witness ==
    /\ pc = "idle"
    /\ Len(collected) = MaxScenes
    /\ \A k \in 1..Len(collected) : collected[k].scene = MaxScenes + 1 - k
    /\ Len(generated_results) = MaxScenes

\* C4: when a start run has stored its results, the stored list holds
\* exactly the scenes whose generate_image call returned a path, each with
\* its own scene number and image path, and no scene whose call returned None.
RunJustFinished == pc = "idle" /\ \E s \in Scenes : genOutcome[s] # "none"

C5_OnlyFilesOfNewRun ==
    /\ \A s \in Scenes : imageDir[s].exists => imageDir[s].tag = "cur"
    /\ \A i \in 1..Len(generated_results) :
          Truthy(generated_results[i].path) =>
             imageDir[generated_results[i].path.scene].tag = "cur"

\* C6: a video path stored for a scene names a video that was rendered from
\* the image file and the audio file now at the scene's image and audio paths.
C6_VideoIsCurrent ==
    \A i \in 1..Len(generated_results) :
        Truthy(generated_results[i].video_path) =>
           /\ videoDir[generated_results[i].scene].exists
           /\ videoDir[generated_results[i].scene].tag = "fresh"

C8_MergeFailureShown ==
    (last.op = "merge" /\ last.case \in {"no_clips", "encode_fail"}) =>
        /\ last.shown = "error"
        /\ ~IsPath(last.ret)

\* C9: every image, audio and video path stored for a scene is None or the
\* path of an existing file of that scene in the matching directory; no
\* other string is stored.
PathOk(v, kind, s) ==
    v = None \/ (v.kind = kind /\ v.scene = s /\ Exists(v))

C9_PathsAbsentOrExisting ==
    \A i \in 1..Len(generated_results) :
        LET item == generated_results[i]
        IN  /\ PathOk(item.path, "image", item.scene)
            /\ PathOk(item.audio_path, "audio", item.scene)
            /\ PathOk(item.video_path, "video", item.scene)

\* a scene has all three artefacts while another one has none beyond its image
C9_Witness ==
    /\ Len(generated_results) = MaxScenes
    /\ Truthy(generated_results[1].audio_path)
    /\ Truthy(generated_results[1].video_path)
    /\ generated_results[MaxScenes].audio_path = None

\* C10: a start click that begins a run leaves no file in the image, audio
\* and video directories: none written by an earlier run survives it.
StartsRun == \E n \in 0..MaxScenes : Start(TRUE, TRUE, n)

C10_AllDirectoriesReset ==
    [][StartsRun =>
          /\ \A s \in Scenes : ~imageDir'[s].exists
          /\ \A s \in Scenes : ~audioDir'[s].exists
          /\ \A s \in Scenes : ~videoDir'[s].exists
          /\ ~finalFile'.exists]_vars

(***************************************************************************)
(* Strings as sequences of characters, and the str methods the text        *)
(* functions use                                                           *)
(***************************************************************************)
MaxText == 5

MaxBudget == 3

\* characters that str.strip() and \s treat as whitespace
IsWs(c) == c \in {" ", "\n"}

\* the characters of [.?!]
IsEnd(c) == c \in {".", "?", "!"}

\* the strings of at most n characters over the alphabet chars
Strings(chars, n) == UNION {[1..k -> chars] : k \in 0..n}

RECURSIVE lstrip(_)
lstrip(s) == IF s # <<>> /\ IsWs(Head(s)) THEN lstrip(Tail(s)) ELSE s

RECURSIVE rstrip(_)
rstrip(s) ==
    IF s # <<>> /\ IsWs(s[Len(s)]) THEN rstrip(SubSeq(s, 1, Len(s) - 1)) ELSE s

\* s.strip()
strip(s) == rstrip(lstrip(s))

\* the index of the first character of s that is in chars, 0 if there is none
FirstIn(s, chars) ==
    IF \E i \in 1..Len(s) : s[i] \in chars
    THEN CHOOSE i \in 1..Len(s) : s[i] \in chars /\ \A j \in 1..(i - 1) : s[j] \notin chars
    ELSE 0

\* s.replace(old, new) for a one-character old
RECURSIVE replace(_, _, _)
replace(s, old, new) ==
    LET i == FirstIn(s, {old})
    IN  IF i = 0 THEN s
        ELSE SubSeq(s, 1, i - 1) \o new \o replace(SubSeq(s, i + 1, Len(s)), old, new)

\* s.split(sep) for a one-character sep
RECURSIVE split(_, _)
split(s, sep) ==
    LET at == {i \in 1..Len(s) : s[i] = sep}
    IN  IF at = {} THEN <<s>>
        ELSE LET i == CHOOSE k \in at : \A m \in at : k <= m
             IN  <<SubSeq(s, 1, i - 1)>> \o split(SubSeq(s, i + 1, Len(s)), sep)

\* re.split(r'(?<=[.?!])\s+', s): cut at every run of whitespace that
\* follows a sentence-ending character, dropping the run
RECURSIVE re_split_sentences(_)
re_split_sentences(s) ==
    LET at == {i \in 2..Len(s) : IsWs(s[i]) /\ IsEnd(s[i - 1])}
    IN  IF at = {} THEN <<s>>
        ELSE LET i == CHOOSE k \in at : \A m \in at : k <= m
                 run == {j \in i..Len(s) : \A k \in i..j : IsWs(s[k])}
                 j == CHOOSE k \in run : \A m \in run : m <= k
             IN  <<SubSeq(s, 1, i - 1)>> \o re_split_sentences(SubSeq(s, j + 1, Len(s)))

\* [x.strip() for x in list if x.strip()]
NonBlank(x) == strip(x) # <<>>

StripNonBlank(list) ==
    LET kept == SelectSeq(list, NonBlank)
    IN  [i \in 1..Len(kept) |-> strip(kept[i])]

(***************************************************************************)
(* split_script_by_time                                                    *)
(***************************************************************************)
\* the for loop over temp_sentences and the final append
RECURSIVE ByTimeLoop(_, _, _, _)
ByTimeLoop(temp_sentences, chunks, current_chunk, chars_per_chunk) ==
    IF temp_sentences = <<>>
    THEN IF current_chunk # <<>> THEN Append(chunks, strip(current_chunk)) ELSE chunks
    ELSE LET sentence == strip(Head(temp_sentences))
             rest == Tail(temp_sentences)
         IN  IF sentence = <<>>
             THEN ByTimeLoop(rest, chunks, current_chunk, chars_per_chunk)
             ELSE IF Len(current_chunk) + Len(sentence) < chars_per_chunk
             THEN ByTimeLoop(rest, chunks, current_chunk \o <<" ">> \o sentence,
                             chars_per_chunk)
             ELSE ByTimeLoop(rest, Append(chunks, strip(current_chunk)), sentence,
                             chars_per_chunk)

split_script_by_time(script, chars_per_chunk) ==
    LET marked == replace(replace(replace(script, ".", <<".", "|">>),
                                  "?", <<"?", "|">>), "!", <<"!", "|">>)
    IN  ByTimeLoop(split(marked, "|"), <<>>, <<>>, chars_per_chunk)

(***************************************************************************)
(* split_text_automatically                                                *)
(***************************************************************************)
\* the for loop of the except branch and the final append
RECURSIVE FallbackLoop(_, _, _, _)
FallbackLoop(sentences, scenes, current_chunk, target_chars) ==
    IF sentences = <<>>
    THEN IF current_chunk # <<>> THEN Append(scenes, strip(current_chunk)) ELSE scenes
    ELSE LET sentence == Head(sentences)
             rest == Tail(sentences)
         IN  IF strip(sentence) = <<>>
             THEN FallbackLoop(rest, scenes, current_chunk, target_chars)
             ELSE IF Len(current_chunk) + Len(sentence) > target_chars
             THEN FallbackLoop(rest,
                               IF current_chunk # <<>>
                               THEN Append(scenes, strip(current_chunk)) ELSE scenes,
                               sentence, target_chars)
             ELSE FallbackLoop(rest, scenes, current_chunk \o <<" ">> \o sentence,
                               target_chars)

\* the except branch: the rule-based split inside the AI splitter
RuleBasedFallback(full_text, target_chars) ==
    FallbackLoop(re_split_sentences(strip(full_text)), <<>>, <<>>, target_chars)

\* the else branch of the isinstance test
SplitLines(full_text) == StripNonBlank(split(full_text, "\n"))

\* what the call and json.loads do: the call raises, the response text is
\* not JSON, it is JSON but no list, or it is a list of strings
AiOutcomes == {"raise", "bad_json", "not_list", "list"}

split_text_automatically(full_text, target_chars, how, resp) ==
    CASE how = "list"     -> StripNonBlank(resp)
      [] how = "not_list" -> SplitLines(full_text)
      [] OTHER            -> RuleBasedFallback(full_text, target_chars)

\* the lists the text model answers with
AiLists == {<<>>, << <<" ", "a", ".">>, <<" ">>, <<"a", "\n">> >>}

SplitChars == {"a", ".", " ", "\n", "|"}

InitSplit ==
    /\ GiOff
    /\ MainIdle
    /\ LpOff
    /\ QtOff
    /\ fn_in \in [fn : {""}, text : Strings(SplitChars, MaxText),
                  budget : 1..MaxBudget, how : {""}, resp : {<<>>}]
    /\ fn_out = <<>>
    /\ fn_done = FALSE

CallSplitScriptByTime ==
    /\ ~fn_done
    /\ fn_in' = [fn_in EXCEPT !.fn = "split_script_by_time"]
    /\ fn_out' = split_script_by_time(fn_in.text, fn_in.budget)
    /\ fn_done' = TRUE
    /\ UNCHANGED <<giVars, mainVars, lpVars, qtVars>>

CallSplitTextAutomatically(how, resp) ==
    /\ ~fn_done
    /\ how = "list" \/ resp = <<>>
    /\ fn_in' = [fn_in EXCEPT !.fn = "split_text_automatically", !.how = how,
                              !.resp = resp]
    /\ fn_out' = split_text_automatically(fn_in.text, fn_in.budget, how, resp)
    /\ fn_done' = TRUE
    /\ UNCHANGED <<giVars, mainVars, lpVars, qtVars>>

NextSplit ==
    \/ CallSplitScriptByTime
    \/ \E how \in AiOutcomes, resp \in AiLists : CallSplitTextAutomatically(how, resp)

SpecSplit == InitSplit /\ [][NextSplit]_vars

\* the calls that end in the rule-based character-budget split
RuleBasedCall ==
    /\ fn_done
    /\ \/ fn_in.fn = "split_script_by_time"
       \/ fn_in.fn = "split_text_automatically" /\ fn_in.how \in {"raise", "bad_json"}

\* C11: every scene the rule-based character-budget split emits (standalone
\* or as the fallback of the AI split) is at most the budget long, also when
\* one sentence alone is longer than the budget.
C11_ScenesWithinBudget ==
    RuleBasedCall => \A i \in 1..Len(fn_out) : Len(fn_out[i]) <= fn_in.budget

\* the characters of a list of strings, in order
RECURSIVE Flatten(_)
Flatten(list) == IF list = <<>> THEN <<>> ELSE Head(list) \o Flatten(Tail(list))

NotWs(c) == ~IsWs(c)

\* C12: the scenes of the rule-based split, read in order, hold the text of
\* the script: nothing but whitespace is lost, nothing duplicated, nothing
\* reordered, and the last remainder is emitted.
C12_NothingLost ==
    RuleBasedCall =>
        SelectSeq(Flatten(fn_out), NotWs) = SelectSeq(fn_in.text, NotWs)

\* C15: when the AI split fails or answers with JSON that is no list, the
\* result is the rule-based character-budget split of the same text with
\* the same budget.
C15_FallsBackToRuleBased ==
    (fn_done /\ fn_in.fn = "split_text_automatically"
             /\ fn_in.how \in {"raise", "bad_json", "not_list"}) =>
        fn_out = RuleBasedFallback(fn_in.text, fn_in.budget)

(***************************************************************************)
(* parse_numbered_script                                                   *)
(***************************************************************************)
MaxScript == 7

\* the characters \d matches
Digits == {"0", "1", "2", "3", "4", "5", "6", "7", "8", "9"}

\* re.match(r'^(\d+)\.(.*)$', line): the position of the dot that ends the
\* leading run of digits, 0 when the line does not match
MarkerDot(line) ==
    LET runs == {k \in 1..Len(line) : \A j \in 1..k : line[j] \in Digits}
    IN  IF runs = {} THEN 0
        ELSE LET k == CHOOSE r \in runs : \A m \in runs : m <= r
             IN  IF k < Len(line) /\ line[k + 1] = "." THEN k + 1 ELSE 0

\* sep.join(list)
RECURSIVE join(_, _)
join(list, sep) ==
    IF list = <<>> THEN <<>>
    ELSE IF Len(list) = 1 THEN list[1]
    ELSE list[1] \o sep \o join(Tail(list), sep)

CollapseWsNone(s) == s

\* re.sub(r'\s+', ' ', s)
RECURSIVE CollapseWs(_)
CollapseWs(s) ==
    IF s = <<>> THEN <<>>
    ELSE IF IsWs(Head(s))
    THEN <<" ">> \o CollapseWs(lstrip(s))
    ELSE <<Head(s)>> \o CollapseWs(Tail(s))

\* "if current_scene_lines: ... if scene_text: scenes.append(scene_text)"
SaveScene(scenes, current_scene_lines) ==
    LET scene_text == strip(CollapseWs(join(current_scene_lines, <<" ">>)))
    IN  IF current_scene_lines # <<>> /\ scene_text # <<>>
        THEN Append(scenes, scene_text)
        ELSE scenes

\* the for loop over lines and the save of the last scene
RECURSIVE ParseLoop(_, _, _)
ParseLoop(lines, scenes, current_scene_lines) ==
    IF lines = <<>> THEN SaveScene(scenes, current_scene_lines)
    ELSE LET line == strip(Head(lines))
             dot == MarkerDot(line)
             rest == strip(SubSeq(line, dot + 1, Len(line)))
         IN  IF line = <<>>
             THEN ParseLoop(Tail(lines), scenes, current_scene_lines)
             ELSE IF dot > 0
             THEN ParseLoop(Tail(lines), SaveScene(scenes, current_scene_lines),
                            IF rest # <<>> THEN <<rest>> ELSE <<>>)
             ELSE ParseLoop(Tail(lines), scenes, Append(current_scene_lines, line))

parse_numbered_script(script) ==
    ParseLoop(split(strip(script), "\n"), <<>>, <<>>)

ParseChars == {"1", ".", "a", " ", "\n"}

\* "1.a. 2.b.": two markers on one line
TwoMarkersOneLine == <<"1", ".", "a", ".", " ", "2", ".", "b", ".">>

InitParse ==
    /\ GiOff
    /\ MainIdle
    /\ LpOff
    /\ QtOff
    /\ fn_in \in [fn : {""},
                  text : Strings(ParseChars, MaxScript) \cup {TwoMarkersOneLine},
                  budget : {0}, how : {""}, resp : {<<>>}]
    /\ fn_out = <<>>
    /\ fn_done = FALSE

CallParseNumberedScript ==
    /\ ~fn_done
    /\ fn_in' = [fn_in EXCEPT !.fn = "parse_numbered_script"]
    /\ fn_out' = parse_numbered_script(fn_in.text)
    /\ fn_done' = TRUE
    /\ UNCHANGED <<giVars, mainVars, lpVars, qtVars>>

NextParse == CallParseNumberedScript

SpecParse == InitParse /\ [][NextParse]_vars

\* the words of a string: its maximal runs of non-whitespace characters
RECURSIVE Words(_)
Words(s) ==
    LET t == lstrip(s)
        ws == {i \in 1..Len(t) : IsWs(t[i])}
    IN  IF t = <<>> THEN <<>>
        ELSE IF ws = {} THEN <<t>>
        ELSE LET i == CHOOSE k \in ws : \A m \in ws : k <= m
             IN  <<SubSeq(t, 1, i - 1)>> \o Words(SubSeq(t, i, Len(t)))

\* a line opens a scene: digits, then a dot
OpensScene(line) ==
    \E k \in 1..(Len(line) - 1) :
        /\ \A j \in 1..k : line[j] \in Digits
        /\ line[k + 1] = "."

\* what follows the marker on its line
AfterMarker(line) ==
    LET k == CHOOSE d \in 1..(Len(line) - 1) :
                 /\ \A j \in 1..d : line[j] \in Digits
                 /\ line[d + 1] = "."
    IN  SubSeq(line, k + 2, Len(line))

\* the lines of a script that are not blank, stripped
ScriptLines(script) == StripNonBlank(split(script, "\n"))

\* the scenes the claim describes: for the marker at line m, the words
\* after the marker and on the lines up to the next marker, single-spaced;
\* markers without a word give no scene
MarkedScenes(script) ==
    LET L == ScriptLines(script)
        M == {m \in 1..Len(L) : OpensScene(L[m])}
        Last(m) == IF \E n \in M : n > m
                   THEN (CHOOSE n \in M : n > m /\ \A q \in M : q > m => n <= q) - 1
                   ELSE Len(L)
        Content(m) == Words(AfterMarker(L[m]))
                        \o Flatten([i \in 1..(Last(m) - m) |-> Words(L[m + i])])
        Scene(m) == join(Content(m), <<" ">>)
        all == [m \in 1..Len(L) |-> IF m \in M THEN Scene(m) ELSE <<>>]
    IN  SelectSeq(all, LAMBDA x : x # <<>>)

StartsWithMarker(script) ==
    ScriptLines(script) # <<>> /\ OpensScene(ScriptLines(script)[1])

\* C13: for a script whose first non-blank line opens with a marker, the
\* parser returns, in order, one scene per marker that has content, the
\* scene being the words of that content separated by single spaces.
C13_OneScenePerMarker ==
    (fn_done /\ fn_in.fn = "parse_numbered_script" /\ StartsWithMarker(fn_in.text)) =>
        fn_out = MarkedScenes(fn_in.text)

\* two markers with content on two lines give two scenes
C13_Witness ==
    /\ fn_done
    /\ fn_in.fn = "parse_numbered_script"
    /\ StartsWithMarker(fn_in.text)
    /\ Len(ScriptLines(fn_in.text)) = 2
    /\ Len(fn_out) = 2

\* C14: the script "1.a. 2.b.", two markers on one line, gives 2 scenes.
C14_TwoMarkersOnOneLine ==
    (fn_done /\ fn_in.fn = "parse_numbered_script" /\ fn_in.text = TwoMarkersOneLine) =>
        Len(fn_out) = 2

(***************************************************************************)
(* The image submission loop                                               *)
(***************************************************************************)
MaxPrompts == 81

\* options=[1, 2, 3, 4] of the key count
MaxKeys == 4

\* the range of the concurrency slider
MaxWorkersSetting == 10

\* requests per minute and key
PerKeyQuota == 20

\* the pause of the loop, and the minute of the quota, in milliseconds
Minute == 60000

Max(a, b) == IF a >= b THEN a ELSE b

Min(a, b) == IF a <= b THEN a ELSE b

total_rate_limit(n) == n * PerKeyQuota

\* max(4.0 / num_clients, 1.5) seconds, in milliseconds
sleep_interval(n) == Max(4000 \div n, 1500)

\* min(max_workers, num_clients * 3)
adjusted_workers(mw, n) == Min(mw, n * 3)

PauseDueAfterSubmit(n, count) ==
    n > 1 /\ (count + 1) % total_rate_limit(n) = 0

\* the test before time.sleep(60)
PauseDue(n, count) ==
    n > 1 /\ count > 0 /\ count % total_rate_limit(n) = 0

\* one iteration of "for s_num, prompt_text in prompts": the sleeps, the
\* submit and the increment
LoopStep ==
    /\ request_count < total_scenes
    /\ lp_paused' = PauseDue(num_clients, request_count)
    /\ lp_clock' = lp_clock + sleep_interval(num_clients)
                     + (IF PauseDue(num_clients, request_count) THEN Minute ELSE 0)
    /\ request_count' = request_count + 1
    /\ UNCHANGED <<num_clients, total_scenes>>

InitLoop ==
    /\ GiOff
    /\ MainIdle
    /\ FnOff
    /\ QtOff
    /\ num_clients \in 1..MaxKeys
    /\ total_scenes \in 1..MaxPrompts
    /\ request_count = 0
    /\ lp_clock = 0
    /\ lp_paused = FALSE

SubmitNext == LoopStep /\ UNCHANGED <<giVars, mainVars, fnVars, qtVars>>

NextLoop == SubmitNext

SpecLoop == InitLoop /\ [][NextLoop]_vars

(***************************************************************************)
(* The loop together with the worker threads that run generate_image.  The *)
(* service answers at once, and in one batch always in the same way.       *)
(***************************************************************************)
MaxBatch == 3

QuotaAnswers ==
    {[resp |-> "image", msg |-> {}], [resp |-> "no_image", msg |-> {}],
     [resp |-> "raise", msg |-> {"429"}], [resp |-> "raise", msg |-> {"400"}]}

Idle == [cred |-> 0, attempt |-> 0, at |-> 0]

Busy(w) == qt_pool[w].attempt > 0

\* when the loop makes its next submit
NextSubmitAt ==
    lp_clock + sleep_interval(num_clients)
      + (IF PauseDue(num_clients, request_count) THEN Minute ELSE 0)

\* the times of the pending events
EventTimes ==
    {qt_pool[w].at : w \in {v \in DOMAIN qt_pool : Busy(v)}}
      \cup (IF request_count < total_scenes THEN {NextSubmitAt} ELSE {})

Earliest(t) == \A u \in EventTimes : t <= u

\* history only: forget the requests that left the window ending at t
InWindow(sent, t) ==
    [c \in DOMAIN sent |->
        SelectSeq(sent[c], LAMBDA x : x > t - Minute)]

InitQuota ==
    /\ GiOff
    /\ MainIdle
    /\ FnOff
    /\ num_clients \in 1..MaxKeys
    /\ total_scenes \in 1..MaxBatch
    /\ request_count = 0
    /\ lp_clock = 0
    /\ lp_paused = FALSE
    /\ max_workers \in 1..MaxWorkersSetting
    /\ qt_answer \in QuotaAnswers
    /\ qt_pool = [w \in 1..adjusted_workers(max_workers, num_clients) |-> Idle]
    /\ qt_queue = <<>>
    /\ qt_sent = [c \in 1..num_clients |-> <<>>]
    /\ qt_now = 0

\* executor.submit(generate_image, current_client, ...): an idle worker
\* thread takes the task at once, otherwise it waits in the queue
Submit ==
    /\ request_count < total_scenes
    /\ Earliest(NextSubmitAt)
    /\ LoopStep
    /\ LET current_client == (request_count % num_clients) + 1
           idle == {w \in DOMAIN qt_pool : ~Busy(w)}
       IN  IF idle # {}
           THEN /\ qt_pool' = [qt_pool EXCEPT
                                 ![CHOOSE w \in idle : \A v \in idle : w <= v] =
                                    [cred |-> current_client, attempt |-> 1,
                                     at |-> lp_clock']]
                /\ qt_queue' = qt_queue
           ELSE /\ qt_queue' = Append(qt_queue, current_client)
                /\ qt_pool' = qt_pool
    /\ qt_now' = lp_clock'
    /\ qt_sent' = InWindow(qt_sent, lp_clock')
    /\ UNCHANGED <<max_workers, qt_answer>>
    /\ UNCHANGED <<giVars, mainVars, fnVars>>

\* the worker thread returns from generate_image and takes the next task
Release(w, t) ==
    IF qt_queue # <<>>
    THEN /\ qt_pool' = [qt_pool EXCEPT ![w] = [cred |-> Head(qt_queue),
                                               attempt |-> 1, at |-> t]]
         /\ qt_queue' = Tail(qt_queue)
    ELSE /\ qt_pool' = [qt_pool EXCEPT ![w] = Idle]
         /\ qt_queue' = qt_queue

\* one attempt of generate_image in worker w: the request, and the return
\* or the sleep that follows
WorkerRequest(w) ==
    /\ w \in DOMAIN qt_pool
    /\ Busy(w)
    /\ qt_pool[w].attempt <= max_retries
    /\ Earliest(qt_pool[w].at)
    /\ LET r == qt_pool[w]
       IN  /\ qt_now' = r.at
           /\ qt_sent' = [InWindow(qt_sent, r.at) EXCEPT ![r.cred] = Append(@, r.at)]
           /\ IF qt_answer.resp = "image"
              THEN Release(w, r.at)
              ELSE /\ qt_pool' = [qt_pool EXCEPT ![w] =
                                     [r EXCEPT !.attempt = @ + 1,
                                               !.at = @ + 1000 * WaitAfter(qt_answer)]]
                   /\ qt_queue' = qt_queue
    /\ UNCHANGED <<max_workers, qt_answer, lpVars>>
    /\ UNCHANGED <<giVars, mainVars, fnVars>>

\* generate_image in worker w has used up its attempts and returns None
WorkerGivesUp(w) ==
    /\ w \in DOMAIN qt_pool
    /\ Busy(w)
    /\ qt_pool[w].attempt > max_retries
    /\ Earliest(qt_pool[w].at)
    /\ qt_now' = qt_pool[w].at
    /\ qt_sent' = InWindow(qt_sent, qt_pool[w].at)
    /\ Release(w, qt_pool[w].at)
    /\ UNCHANGED <<max_workers, qt_answer, lpVars>>
    /\ UNCHANGED <<giVars, mainVars, fnVars>>

NextQuota ==
    \/ Submit
    \/ \E w \in 1..MaxWorkersSetting : WorkerRequest(w)
    \/ \E w \in 1..MaxWorkersSetting : WorkerGivesUp(w)

SpecQuota == InitQuota /\ [][NextQuota]_vars

C17_PerKeyQuotaKept ==
    \A c \in DOMAIN qt_sent : Len(qt_sent[c]) <= 20

(***************************************************************************)
(* The start action alone, with every outcome of the prompt calls          *)
(***************************************************************************)
NextPrompt ==
    \/ \E hasKey \in BOOLEAN, hasScript \in BOOLEAN, n \in 0..MaxScenes :
          Start(hasKey, hasScript, n)
    \/ \E s \in Scenes, o \in PromptOutcomes : PromptDone(s, o)
    \/ StartImages
    \/ \E s \in Scenes, ok \in BOOLEAN : ImageDone(s, ok)
    \/ FinishRun
    \/ \E w \in Abandoned, ok \in BOOLEAN : OldWorkerDone(w, ok)

SpecPrompt == Init /\ [][NextPrompt]_vars

\* C18: every prompt submitted to generate_image is the model's text or,
\* when the prompt call failed, the scene text, each followed by the style
\* suffix; never an error message.
C18_PromptNeverAnError ==
    pc = "images" =>
        \A i \in 1..Len(prompts) :
            /\ prompts[i].prompt.src \in {"model", "chunk"}
            /\ prompts[i].prompt.suffix
            /\ prompts[i].prompt.chunk = prompts[i].scene

(***************************************************************************)
(* num_to_kor.  The Korean syllables are written by their romanised names, *)
(* one name per character; a number is the list of its decimal digits,     *)
(* most significant first.                                                 *)
(***************************************************************************)
MaxNum == 5

MaxZeros == 21

DigitChars == <<"0", "1", "2", "3", "4", "5", "6", "7", "8", "9">>

DigitValue(c) == (CHOOSE k \in 1..10 : DigitChars[k] = c) - 1

\* str.isdigit()
isdigit(s) == s # <<>> /\ \A i \in 1..Len(s) : s[i] \in Digits

\* int(s): the digits without leading zeros; 0 is the empty list
RECURSIVE int(_)
int(s) ==
    IF s = <<>> THEN <<>>
    ELSE IF Head(s) = "0" THEN int(Tail(s))
    ELSE [i \in 1..Len(s) |-> DigitValue(s[i])]

\* the value of a number of at most 4 digits
RECURSIVE Value(_)
Value(num) ==
    IF num = <<>> THEN 0 ELSE 10 * Value(SubSeq(num, 1, Len(num) - 1)) + num[Len(num)]

\* num % 10000
Mod10000(num) == Value(SubSeq(num, Max(Len(num) - 3, 1), Len(num)))

\* num // 10000
Div10000(num) == SubSeq(num, 1, Len(num) - 4)

units == << <<>>, <<"sip">>, <<"baek">>, <<"cheon">> >>

big_units == << <<>>, <<"man">>, <<"eok">>, <<"jo">>, <<"gyeong">> >>

num_chars == << <<>>, <<"il">>, <<"i">>, <<"sam">>, <<"sa">>, <<"o">>,
                <<"yuk">>, <<"chil">>, <<"pal">>, <<"gu">> >>

\* "".join(reversed(list))
RECURSIVE JoinReversed(_)
JoinReversed(list) ==
    IF list = <<>> THEN <<>>
    ELSE list[Len(list)] \o JoinReversed(SubSeq(list, 1, Len(list) - 1))

DigitWordAlways(digit, small_idx) == num_chars[digit + 1]

\* char: the digit's word, empty for a 1 in front of a unit
DigitWord(digit, small_idx) ==
    IF digit = 1 /\ small_idx > 0 THEN <<>> ELSE num_chars[digit + 1]

\* "while small_part > 0"
RECURSIVE SmallLoop(_, _, _)
SmallLoop(small_part, small_idx, small_res) ==
    IF small_part > 0
    THEN LET digit == small_part % 10
         IN  SmallLoop(small_part \div 10, small_idx + 1,
                       IF digit > 0
                       THEN Append(small_res,
                                   DigitWord(digit, small_idx) \o units[small_idx + 1])
                       ELSE small_res)
    ELSE small_res

\* "while num > 0"; raised: big_units[big_idx] was out of range
RECURSIVE BigLoop(_, _, _)
BigLoop(num, big_idx, result) ==
    IF num # <<>>
    THEN LET small_part == Mod10000(num)
         IN  IF small_part > 0
             THEN IF big_idx + 1 > Len(big_units)
                  THEN [raised |-> TRUE, result |-> result]
                  ELSE BigLoop(Div10000(num), big_idx + 1,
                               Append(result,
                                      JoinReversed(SmallLoop(small_part, 0, <<>>))
                                        \o big_units[big_idx + 1]))
             ELSE BigLoop(Div10000(num), big_idx + 1, result)
    ELSE [raised |-> FALSE, result |-> result]

num_to_kor(num_str) ==
    LET stripped == replace(num_str, ",", <<>>)
    IN  IF ~isdigit(stripped) THEN stripped
        ELSE IF int(stripped) = <<>> THEN <<"yeong">>
        ELSE LET r == BigLoop(int(stripped), 0, <<>>)
             IN  IF r.raised THEN stripped ELSE JoinReversed(r.result)

NumChars == {"0", "1", "5", ","}

\* k times the character c
Repeat(c, k) == [i \in 1..k |-> c]

\* 1, 10, 100, ... and 1, 11, 111, ...
LongNumbers ==
    {<<"1">> \o Repeat("0", k) : k \in 0..MaxZeros}
      \cup {Repeat("1", k) : k \in 1..(MaxZeros + 1)}

InitNum ==
    /\ GiOff
    /\ MainIdle
    /\ LpOff
    /\ QtOff
    /\ fn_in \in [fn : {""},
                  text : Strings(NumChars, MaxNum) \cup LongNumbers,
                  budget : {0}, how : {""}, resp : {<<>>}]
    /\ fn_out = <<>>
    /\ fn_done = FALSE

CallNumToKor ==
    /\ ~fn_done
    /\ fn_in' = [fn_in EXCEPT !.fn = "num_to_kor"]
    /\ fn_out' = <<num_to_kor(fn_in.text)>>
    /\ fn_done' = TRUE
    /\ UNCHANGED <<giVars, mainVars, lpVars, qtVars>>

NextNum == CallNumToKor

SpecNum == InitNum /\ [][NextNum]_vars

\* the digits of the integer a string writes, commas aside
Numeral(s) == int(SelectSeq(s, LAMBDA c : c # ","))

WritesInteger(s) == isdigit(SelectSeq(s, LAMBDA c : c # ","))

\* the large-scale unit of the k-th group of four digits, counted from the
\* least significant one; the source language names five of them
GroupUnit(k) == IF k + 1 <= Len(big_units) THEN big_units[k + 1] ELSE <<"unit">>

\* the spoken rendering, digit by digit from the most significant one: a
\* non-zero digit gives its word (none for a 1 at the tens, hundreds or
\* thousands) and its position unit; the last digit of a group that is not
\* all zero is followed by the group's large-scale unit
Spoken(d) ==
    LET L == Len(d)
        Exp(p) == L - p
        GroupNonZero(g) == \E q \in 1..L : Exp(q) \div 4 = g /\ d[q] # 0
        Piece(p) ==
            (IF d[p] = 0 THEN <<>>
             ELSE (IF d[p] = 1 /\ Exp(p) % 4 > 0 THEN <<>> ELSE num_chars[d[p] + 1])
                    \o units[(Exp(p) % 4) + 1])
              \o (IF Exp(p) % 4 = 0 /\ GroupNonZero(Exp(p) \div 4)
                  THEN GroupUnit(Exp(p) \div 4) ELSE <<>>)
    IN  IF L = 0 THEN <<"yeong">> ELSE Flatten([p \in 1..L |-> Piece(p)])

\* C20: for every string that writes a non-negative integer, with or
\* without commas, num_to_kor returns the spoken rendering of the integer.
C20_SpokenRendering ==
    (fn_done /\ fn_in.fn = "num_to_kor" /\ WritesInteger(fn_in.text)) =>
        fn_out = <<Spoken(Numeral(fn_in.text))>>

\* C20 as amended: for an integer below 10^20 num_to_kor returns the spoken
\* rendering; for an integer of 10^20 or more it returns the digits as
\* written, commas removed.
C20_SpokenBelowTenToTwenty ==
    (fn_done /\ fn_in.fn = "num_to_kor" /\ WritesInteger(fn_in.text)) =>
        IF Len(Numeral(fn_in.text)) <= 20
        THEN fn_out = <<Spoken(Numeral(fn_in.text))>>
        ELSE fn_out = <<SelectSeq(fn_in.text, LAMBDA c : c # ",")>>

\* 1,500 is rendered "cheon o baek"
C20_Witness ==
    /\ fn_done
    /\ fn_in.fn = "num_to_kor"
    /\ fn_in.text = <<"1", ",", "5", "0", "0">>
    /\ fn_out = << <<"cheon", "o", "baek">> >>

(***************************************************************************)
(* The text generate_supertone_tts sends: normalize_text_for_tts, a forced *)
(* full stop, the first 500 characters.                                    *)
(***************************************************************************)
MaxTail == 3

SafeTextLimit == 500

\* " 퍼센트" and " 점 "
Percent == <<" ", "peo", "sen", "teu">>

Point == <<" ", "jeom", " ">>

\* the length of the longest run of digits at the head of s: \d+
DigitRun(s) ==
    CHOOSE n \in 0..Len(s) :
        /\ \A i \in 1..n : s[i] \in Digits
        /\ n = Len(s) \/ s[n + 1] \notin Digits

\* re.sub(r'(\d+)\.(\d+)', replace_decimal, text): a match can only begin
\* where a run of digits begins
RECURSIVE SubDecimal(_)
SubDecimal(s) ==
    LET i == FirstIn(s, Digits)
    IN  IF i = 0 THEN s
        ELSE LET t == SubSeq(s, i, Len(s))
                 a == DigitRun(t)
             IN  IF Len(t) >= a + 2 /\ t[a + 1] = "." /\ t[a + 2] \in Digits
                 THEN LET rest == SubSeq(t, a + 2, Len(t))
                          b == DigitRun(rest)
                      IN  SubSeq(s, 1, i - 1) \o SubSeq(t, 1, a) \o Point
                            \o SubSeq(rest, 1, b)
                            \o SubDecimal(SubSeq(rest, b + 1, Len(rest)))
                 ELSE SubSeq(s, 1, i - 1) \o SubSeq(t, 1, a)
                        \o SubDecimal(SubSeq(t, a + 1, Len(t)))

\* the length of the match of \d+(?:,\d+)* at the head of s
RECURSIVE NumberMatch(_)
NumberMatch(s) ==
    LET a == DigitRun(s)
    IN  IF Len(s) >= a + 2 /\ s[a + 1] = "," /\ s[a + 2] \in Digits
        THEN a + 1 + NumberMatch(SubSeq(s, a + 2, Len(s)))
        ELSE a

\* re.sub(r'\d+(?:,\d+)*', replace_number, text)
RECURSIVE SubNumber(_)
SubNumber(s) ==
    LET i == FirstIn(s, Digits)
    IN  IF i = 0 THEN s
        ELSE LET t == SubSeq(s, i, Len(s))
                 n == NumberMatch(t)
             IN  SubSeq(s, 1, i - 1) \o num_to_kor(SubSeq(t, 1, n))
                   \o SubNumber(SubSeq(t, n + 1, Len(t)))

normalize_text_for_tts(text) == SubNumber(SubDecimal(replace(text, "%", Percent)))

\* normalized_text[:500]
safe_text(text) ==
    LET normalized_text == strip(normalize_text_for_tts(text)) \o <<".">>
    IN  SubSeq(normalized_text, 1, Min(SafeTextLimit, Len(normalized_text)))

TtsChars == {"a", ".", " ", "%", "1"}

\* scene texts: a short one, or one about as long as the limit
SceneTexts ==
    {Repeat("a", k) \o tail :
        k \in {0} \cup ((SafeTextLimit - MaxTail)..SafeTextLimit),
        tail \in Strings(TtsChars, MaxTail)}

InitTts ==
    /\ GiOff
    /\ MainIdle
    /\ LpOff
    /\ QtOff
    /\ fn_in \in [fn : {""}, text : SceneTexts,
                  budget : {0}, how : {""}, resp : {<<>>}]
    /\ fn_out = <<>>
    /\ fn_done = FALSE

\* the payload's "text"
CallGenerateSupertoneTts ==
    /\ ~fn_done
    /\ fn_in' = [fn_in EXCEPT !.fn = "generate_supertone_tts"]
    /\ fn_out' = <<safe_text(fn_in.text)>>
    /\ fn_done' = TRUE
    /\ UNCHANGED <<giVars, mainVars, lpVars, qtVars>>

NextTts == CallGenerateSupertoneTts

SpecTts == InitTts /\ [][NextTts]_vars

\* C19: the text sent to the narration service is at most 500 characters
\* long and ends with a sentence-ending punctuation mark.
C19_ShortAndTerminated ==
    (fn_done /\ fn_in.fn = "generate_supertone_tts") =>
        /\ Len(fn_out[1]) <= SafeTextLimit
        /\ fn_out[1] # <<>>
        /\ IsEnd(fn_out[1][Len(fn_out[1])])

(***************************************************************************)
(* The wait between two submissions of the image loop                      *)
(***************************************************************************)
\* C25: the wait between two consecutive image submissions is 4 seconds
\* with one key, 3 seconds with two, 2 seconds with three and 1.5 seconds
\* with four (a submission that follows the 60 second pause aside).
C25_WaitPerKeyCount ==
    [][(request_count' = request_count + 1 /\ ~lp_paused') =>
          lp_clock' - lp_clock =
              <<4000, 3000, 2000, 1500>>[num_clients]]_vars

(***************************************************************************)
(* Empty scenes                                                            *)
(***************************************************************************)
\* C30: every text returned by split_script_by_time and by
\* split_text_automatically (list answer, non-list answer, fallback) is
\* non-empty.
C30_NoEmptyScene ==
    fn_done => \A i \in 1..Len(fn_out) : fn_out[i] # <<>>

(***************************************************************************)
(* The processing flag                                                     *)
(***************************************************************************)
\* C27: is_processing is true only while a start action is executing: when
\* no start action is in its prompt or image batch, whatever the outcome of
\* the last one, the flag is false.
C27_FlagOnlyWhileRunning ==
    is_processing => pc \in {"prompts", "images"}

(***************************************************************************)
(* Zoom direction                                                          *)
(***************************************************************************)
\* a render handler has just called create_video_with_zoom
Rendered == last.op \in {"batch_video", "scene_video"}

C28_RegenChangesOwnSceneOnly ==
    [][last'.op = "regen_image" =>
          /\ Len(generated_results') = Len(generated_results)
          /\ \A j \in 1..Len(generated_results) :
                (generated_results[j].scene # last'.scene \/ last'.case = "fail") =>
                    generated_results'[j] = generated_results[j]]_vars

\* the regeneration of scene 1 has just failed; the scene keeps its audio
\* and its video
C28_Witness ==
    /\ last.op = "regen_image"
    /\ last.case = "fail"
    /\ last.scene = 1
    /\ Len(generated_results) = MaxScenes
    /\ Truthy(generated_results[1].audio_path)
    /\ Truthy(generated_results[1].video_path)

(***************************************************************************)
(* The final video offered for download                                    *)
(***************************************************************************)
\* "if video_paths: ... if os.path.exists(final_path): st.download_button"
FinalOffered ==
    /\ pc = "idle"
    /\ VideoPaths(generated_results) # <<>>
    /\ finalFile.exists

\* C26: a final video offered for download was merged from the scene
\* videos the result list holds now: none is offered that predates a change
\* of a scene's image, audio or video, or that belongs to an earlier run.
C26_OfferedFinalIsCurrent ==
    FinalOffered => finalFile.tag = "this"

(***************************************************************************)
(* Who writes the stored result list, and when                             *)
(***************************************************************************)
\* the step wrote st.session_state['generated_results']
StoreWritten == generated_results' # generated_results

\* C24: during a batch action (image, TTS, video) the stored result list is
\* written only when the worker pool of the batch has drained: no write
\* happens while a worker of the batch has yet to return.
C24_WrittenAfterPoolDrained ==
    [][(StoreWritten /\ pc \in {"images", "tts", "video"}) => pending' = {}]_vars

\* C24 as amended: the start action stores its result list only when its
\* image pool has drained; in the TTS and video batches the list is written
\* each time a worker has returned, also while other workers of the batch
\* are still out, and the write changes that worker's record only; the
\* return of a worker of an abandoned run writes nothing to the list.
C24_WrittenByCollectingThread ==
    [][/\ (StoreWritten /\ pc = "images") => pending = {}
       /\ (StoreWritten /\ pc \in {"tts", "video"}) =>
             \E i \in pending :
                /\ pending' = pending \ {i}
                /\ Len(generated_results') = Len(generated_results)
                /\ \A j \in 1..Len(generated_results) :
                      j # i => generated_results'[j] = generated_results[j]
       /\ (oldWorkers' # oldWorkers /\ oldWorkers' \subseteq oldWorkers) =>
             ~StoreWritten]_vars

\* in a TTS batch the audio of scene 1 has just been stored while the
\* worker of another scene is still out
C24_Witness ==
    /\ pc = "tts"
    /\ last.op = "batch_tts"
    /\ last.case = "ok"
    /\ last.scene = 1
    /\ Truthy(generated_results[1].audio_path)
    /\ pending # {}

(***************************************************************************)
(* Pairing of scene number, text, prompt and image                         *)
(***************************************************************************)
\* C29: whatever the order in which the prompt and image futures complete,
\* the stored result of scene n carries the n-th text as its script, the
\* return value of the prompt call made for the n-th text, and the file
\* name and image path of scene n.
C29_ResultsPairedByScene ==
    \A i \in 1..Len(generated_results) :
        LET r == generated_results[i]
        IN  /\ r.script = r.scene
            /\ r.prompt.chunk = r.scene
            /\ r.filename = make_filename(r.scene, r.scene)
            /\ r.path = ImagePath(make_filename(r.scene, r.scene))

\* a run has stored all its scenes, the image of the last scene having
\* been collected first
C29_Witness ==
    /\ pc = "idle"
    /\ Len(generated_results) = MaxScenes
    /\ Len(collected) = MaxScenes
    /\ collected[1].scene = MaxScenes
    /\ generated_results[MaxScenes].prompt.chunk = MaxScenes
    /\ generated_results[1].script = 1

(***************************************************************************)
(* File names: make_filename on the characters of the scene text, and the  *)
(* names of the audio and video files                                      *)
(***************************************************************************)
MaxName == 2

MaxSceneNum == 2

\* the characters of [\\/:*?"<>|]
Forbidden == {"\\", "/", ":", "*", "?", "\"", "<", ">", "|"}

\* str(n) for n >= 0
RECURSIVE DigitsOf(_)
DigitsOf(n) ==
    IF n < 10 THEN <<DigitChars[n + 1]>>
    ELSE DigitsOf(n \div 10) \o <<DigitChars[(n % 10) + 1]>>

Format03dLastThree(scene_num) ==
    LET d == DigitsOf(scene_num % 1000)
    IN  Repeat("0", 3 - Len(d)) \o d

\* f"{scene_num:03d}": at least three digits, zero-padded
Format03d(scene_num) ==
    LET d == DigitsOf(scene_num)
    IN  Repeat("0", Max(3 - Len(d), 0)) \o d

\* summary: the words of the cleaned text, or the first three, "..." and
\* the last three when there are more than six
summary(text_chunk) ==
    LET clean_line == SelectSeq(strip(replace(text_chunk, "\n", <<" ">>)),
                                LAMBDA c : c \notin Forbidden)
        words == Words(clean_line)
    IN  IF Len(words) <= 6 THEN join(words, <<" ">>)
        ELSE join(SubSeq(words, 1, 3), <<" ">>) \o <<".", ".", ".">>
               \o join(SubSeq(words, Len(words) - 2, Len(words)), <<" ">>)

\* make_filename, character by character
make_filename_chars(scene_num, text_chunk) ==
    <<"S">> \o Format03d(scene_num) \o <<"_">> \o summary(text_chunk)
      \o <<".", "p", "n", "g">>

\* f"S{scene_num:03d}_audio.wav"
audio_filename(scene_num) ==
    <<"S">> \o Format03d(scene_num)
      \o <<"_", "a", "u", "d", "i", "o", ".", "w", "a", "v">>

\* f"S{scene_num:03d}_video_zoom.mp4"
output_filename(scene_num) ==
    <<"S">> \o Format03d(scene_num)
      \o <<"_", "v", "i", "d", "e", "o", "_", "z", "o", "o", "m", ".", "m", "p", "4">>

NameChars == {"a", " ", "_", "1", "/"}

\* texts of more than six words
LongTexts ==
    {<<"a", " ", "a", " ", "a", " ", "a", " ", "a", " ", "a", " ", "a">>,
     <<"a", " ", "a", " ", "a", " ", "1", " ", "a", " ", "a", " ", "a">>}

\* scene numbers: the first ones, and those around the fourth digit
SceneNums == (1..MaxSceneNum) \cup {999, 1000, 1001}

\* two scenes of a run: text holds their texts, budget their scene numbers
InitNames ==
    /\ GiOff
    /\ MainIdle
    /\ LpOff
    /\ QtOff
    /\ fn_in \in [fn : {""},
                  text : (Strings(NameChars, MaxName) \cup LongTexts)
                           \X (Strings(NameChars, MaxName) \cup LongTexts),
                  budget : {p \in SceneNums \X SceneNums : p[1] # p[2]},
                  how : {""}, resp : {<<>>}]
    /\ fn_out = <<>>
    /\ fn_done = FALSE

\* the names the run gives the image, audio and video file of each scene
NameFiles ==
    /\ ~fn_done
    /\ fn_in' = [fn_in EXCEPT !.fn = "make_filename"]
    /\ fn_out' = [k \in 1..2 |->
                    <<make_filename_chars(fn_in.budget[k], fn_in.text[k]),
                      audio_filename(fn_in.budget[k]),
                      output_filename(fn_in.budget[k])>>]
    /\ fn_done' = TRUE
    /\ UNCHANGED <<giVars, mainVars, lpVars, qtVars>>

NextNames == NameFiles

SpecNames == InitNames /\ [][NextNames]_vars

\* C21: within a run, the image, audio and video file names of a scene
\* differ from those of every other scene, whatever the scene numbers and
\* the scene texts, so that no two workers of the run write the same path.
C21_DistinctFileNames ==
    (fn_done /\ fn_in.fn = "make_filename") =>
        \A k, m \in 1..3 : fn_out[1][k] # fn_out[2][m]

\* scenes 1 and 1001 with the same text are named S001_a.png and
\* S1001_a.png
C21_Witness ==
    /\ fn_done
    /\ fn_in.fn = "make_filename"
    /\ fn_in.text = << <<"a">>, <<"a">> >>
    /\ fn_in.budget = <<1, 1001>>
    /\ fn_out[1][1] = <<"S", "0", "0", "1", "_", "a", ".", "p", "n", "g">>
    /\ fn_out[2][1] = <<"S", "1", "0", "0", "1", "_", "a", ".", "p", "n", "g">>

(***************************************************************************)
(* Silence shortening: smart_shorten_silence.  A clip is a sequence of     *)
(* spans, loud or quiet, each with its length in milliseconds; the file    *)
(* written is a sequence of pieces, each a slice audio[from:to] of the     *)
(* clip or generated silence of a given length.                            *)
(***************************************************************************)
MaxSpans == 4

min_silence_len == 100

LoudLengths == {50, 200}

QuietLengths == {50, 100, 300, 301, 900}

\* values of max_allowed_silence_ms: the one the program passes, and another
Ceilings == {300, 900}

Span(kind, ms) == [kind |-> kind, ms |-> ms]

\* clips of n spans, loud and quiet in turn
RECURSIVE ClipsOf(_)
ClipsOf(n) ==
    IF n = 0 THEN {<<>>}
    ELSE LET shorter == ClipsOf(n - 1)
         IN  {Append(c, Span("loud", ms)) :
                 c \in {x \in shorter : x = <<>> \/ x[Len(x)].kind = "quiet"},
                 ms \in LoudLengths}
             \cup
             {Append(c, Span("quiet", ms)) :
                 c \in {x \in shorter : x = <<>> \/ x[Len(x)].kind = "loud"},
                 ms \in QuietLengths}

Clips == UNION {ClipsOf(n) : n \in 0..MaxSpans}

\* the millisecond at which span i of the clip starts
RECURSIVE StartOf(_, _)
StartOf(audio, i) ==
    IF i = 1 THEN 0 ELSE StartOf(audio, i - 1) + audio[i - 1].ms

\* len(audio)
Length(audio) == StartOf(audio, Len(audio) + 1)

\* detect_silence(audio, min_silence_len, silence_thresh): the [start, end]
\* of every quiet span of at least min_silence_len, in order
RECURSIVE detect_from(_, _)
detect_from(audio, i) ==
    IF i > Len(audio) THEN <<>>
    ELSE (IF audio[i].kind = "quiet" /\ audio[i].ms >= min_silence_len
          THEN << <<StartOf(audio, i), StartOf(audio, i + 1)>> >>
          ELSE <<>>)
         \o detect_from(audio, i + 1)

detect_silence(audio) == detect_from(audio, 1)

\* audio[from:to]
Slice(from, to) == [src |-> "audio", from |-> from, to |-> to]

\* AudioSegment.silent(duration=ms)
Silent(ms) == [src |-> "silent", from |-> 0, to |-> ms]

\* output_audio += piece: nothing for an empty piece, and a slice that
\* continues the last slice is the same audio as one longer slice
Plus(output_audio, piece) ==
    IF piece.to <= piece.from THEN output_audio
    ELSE IF /\ output_audio # <<>>
            /\ piece.src = "audio"
            /\ output_audio[Len(output_audio)].src = "audio"
            /\ output_audio[Len(output_audio)].to = piece.from
         THEN [output_audio EXCEPT ![Len(output_audio)].to = piece.to]
         ELSE Append(output_audio, piece)

TooLongOrEqual(silence_duration, max_allowed_silence_ms) ==
    silence_duration >= max_allowed_silence_ms

\* "if silence_duration > max_allowed_silence_ms"
TooLong(silence_duration, max_allowed_silence_ms) ==
    silence_duration > max_allowed_silence_ms

\* the loop over silence_ranges and the tail after it
RECURSIVE ShortenLoop(_, _, _, _, _)
ShortenLoop(output_audio, last_pos, silence_ranges, len, max_allowed_silence_ms) ==
    IF silence_ranges = <<>> THEN Plus(output_audio, Slice(last_pos, len))
    ELSE LET start == silence_ranges[1][1]
             end == silence_ranges[1][2]
             before == Plus(output_audio, Slice(last_pos, start))
             run == IF TooLong(end - start, max_allowed_silence_ms)
                    THEN Silent(max_allowed_silence_ms)
                    ELSE Slice(start, end)
         IN  ShortenLoop(Plus(before, run), end, Tail(silence_ranges), len,
                         max_allowed_silence_ms)

\* the file as it was written by the TTS call
Original(audio) == Plus(<<>>, Slice(0, Length(audio)))

\* the file after smart_shorten_silence: untouched when no silence was
\* detected, exported from output_audio otherwise
smart_shorten_silence(audio, max_allowed_silence_ms) ==
    LET silence_ranges == detect_silence(audio)
    IN  IF silence_ranges = <<>> THEN Original(audio)
        ELSE ShortenLoop(<<>>, 0, silence_ranges, Length(audio),
                         max_allowed_silence_ms)

\* text holds the clip, budget the ceiling
InitSilence ==
    /\ GiOff
    /\ MainIdle
    /\ LpOff
    /\ QtOff
    /\ fn_in \in [fn : {""}, text : Clips, budget : Ceilings,
                  how : {""}, resp : {<<>>}]
    /\ fn_out = <<>>
    /\ fn_done = FALSE

CallSmartShortenSilence ==
    /\ ~fn_done
    /\ fn_in' = [fn_in EXCEPT !.fn = "smart_shorten_silence"]
    /\ fn_out' = smart_shorten_silence(fn_in.text, fn_in.budget)
    /\ fn_done' = TRUE
    /\ UNCHANGED <<giVars, mainVars, lpVars, qtVars>>

NextSilence == CallSmartShortenSilence

SpecSilence == InitSilence /\ [][NextSilence]_vars

\* the detected runs of the clip given, and those longer than the ceiling
DetectedRuns ==
    LET r == detect_silence(fn_in.text)
    IN  {r[i] : i \in 1..Len(r)}

LongRuns == {r \in DetectedRuns : r[2] - r[1] > fn_in.budget}

RECURSIVE SumOver(_, _)
SumOver(set, ceiling) ==
    IF set = {} THEN 0
    ELSE LET r == CHOOSE x \in set : TRUE
         IN  (r[2] - r[1] - ceiling) + SumOver(set \ {r}, ceiling)

RECURSIVE Duration(_)
Duration(pieces) ==
    IF pieces = <<>> THEN 0
    ELSE (pieces[1].to - pieces[1].from) + Duration(Tail(pieces))

\* the end of the last slice of the clip before piece i, the start of the
\* first one after it
EndBefore(pieces, i) ==
    LET before == {j \in 1..(i - 1) : pieces[j].src = "audio"}
    IN  IF before = {} THEN 0
        ELSE pieces[CHOOSE j \in before : \A m \in before : m <= j].to

StartAfter(pieces, i, len) ==
    LET after == {j \in (i + 1)..Len(pieces) : pieces[j].src = "audio"}
    IN  IF after = {} THEN len
        ELSE pieces[CHOOSE j \in after : \A m \in after : j <= m].from

\* C22: after silence shortening with ceiling C, every detected run longer
\* than C is exactly C of silence in its place, every other millisecond of
\* the clip (shorter runs and non-silent spans) is kept once and in the
\* original order, the total duration is reduced by the sum of (d - C) over
\* the runs longer than C, and a clip with no detected silence is unchanged.
C22_SilenceShortened ==
    (fn_done /\ fn_in.fn = "smart_shorten_silence") =>
        LET len == Length(fn_in.text)
            C == fn_in.budget
            kept == {i \in 1..Len(fn_out) : fn_out[i].src = "audio"}
            made == {i \in 1..Len(fn_out) : fn_out[i].src = "silent"}
        IN  /\ UNION {fn_out[i].from..(fn_out[i].to - 1) : i \in kept}
                 = (0..(len - 1)) \ UNION {r[1]..(r[2] - 1) : r \in LongRuns}
            /\ \A i, j \in kept : i < j => fn_out[i].to <= fn_out[j].from
            /\ \A i \in made :
                 /\ fn_out[i].to - fn_out[i].from = C
                 /\ <<EndBefore(fn_out, i), StartAfter(fn_out, i, len)>>
                      \in LongRuns
            /\ Cardinality(made) = Cardinality(LongRuns)
            /\ Duration(fn_out) = len - SumOver(LongRuns, C)
            /\ DetectedRuns = {} => fn_out = Original(fn_in.text)

\* a 900 ms run between two loud spans, ceiling 300 ms: the run is replaced
\* by 300 ms of silence and the clip is 600 ms shorter
C22_Witness ==
    /\ fn_done
    /\ fn_in.fn = "smart_shorten_silence"
    /\ fn_in.text = <<Span("loud", 200), Span("quiet", 900), Span("loud", 200)>>
    /\ fn_in.budget = 300
    /\ fn_out = <<Slice(0, 200), Silent(300), Slice(1100, 1300)>>
    /\ Duration(fn_out) = Length(fn_in.text) - 600

====
